---- MODULE Spec2Model ----
(***************************************************************************)
(* Model of the markdown formatting pipeline of mcp-server-atlassian-jira: *)
(*   utils/formatter.util.ts            (src/unnamed/part_000, l. 73-285)  *)
(*   controllers/atlassian.issues.create.formatter.ts                      *)
(*                                                                         *)
(* A JavaScript string is a sequence of tokens.  Digits, "/" , "-", ":"    *)
(* and the other characters the code inspects are one-character tokens;    *)
(* a fixed fragment of a template literal that the code never looks into   *)
(* is one token.  A JavaScript value is a record [t |-> type, v |-> ...].  *)
(* A formatter returns a string; the callers' retained state (the input,   *)
(* the clock, the strings returned so far, the debug log) is the state of  *)
(* the machine.                                                            *)
(***************************************************************************)
EXTENDS Integers, Sequences, FiniteSets, TLC

VARIABLES fn, input, calls, now, log

vars == <<fn, input, calls, now, log>>

(***************************************************************************)
(* Bounds of the model.                                                    *)
(***************************************************************************)
MaxClock == 2
MaxCalls == 2
MaxCount == 2
MaxTotal == 2
MaxFields == 13
MaxMessages == 2
MaxItems == 2

(***************************************************************************)
(* JavaScript values.                                                      *)
(***************************************************************************)
Undefined == [t |-> "undefined", v |-> 0]
Null == [t |-> "null", v |-> 0]
Str(s) == [t |-> "string", v |-> s]
Num(n) == [t |-> "number", v |-> n]
Bool(b) == [t |-> "boolean", v |-> b]
\* a Date object: tv is the time value, NaN when valid is FALSE
DateObj(valid, tv) == [t |-> "date", v |-> [valid |-> valid, tv |-> tv]]
\* a plain object: v is the record of its own properties
Obj(props) == [t |-> "object", v |-> props]
\* an array: v is the sequence of its elements
Arr(elems) == [t |-> "array", v |-> elems]
\* an object used as a mapping: v is the sequence of its entries <<key, value>>
\* in Object.entries order
Map(entries) == [t |-> "map", v |-> entries]
\* obj.prop of a plain object, undefined when the property is absent
Prop(obj, p) == IF p \in DOMAIN obj.v THEN obj.v[p] ELSE Undefined

\* ToBoolean: what `if (x)`, `!x`, `a && b` and `a || b` test
Truthy(x) ==
    CASE x.t = "undefined" -> FALSE
      [] x.t = "null" -> FALSE
      [] x.t = "string" -> x.v # <<>>
      [] x.t = "number" -> x.v # 0
      [] x.t = "boolean" -> x.v
      [] OTHER -> TRUE

(***************************************************************************)
(* Strings.                                                                *)
(***************************************************************************)
Digit == <<"0", "1", "2", "3", "4", "5", "6", "7", "8", "9">>

DigitChars == {Digit[i] : i \in 1..10}

DigitVal(c) == (CHOOSE i \in 1..10 : Digit[i] = c) - 1

RECURSIVE NatToStr(_)
NatToStr(n) == IF n < 10 THEN <<Digit[n + 1]>>
               ELSE NatToStr(n \div 10) \o <<Digit[(n % 10) + 1]>>

\* Number::toString for an integer
NumToStr(n) == IF n < 0 THEN <<"-">> \o NatToStr(-n) ELSE NatToStr(n)

\* two-digit field of an ISO date-time
Pad2(n) == <<Digit[(n \div 10) + 1], Digit[(n % 10) + 1]>>

\* String(x) and `${x}` of a primitive or a plain object
ToStr(x) ==
    CASE x.t = "undefined" -> <<"undefined">>
      [] x.t = "null" -> <<"null">>
      [] x.t = "string" -> x.v
      [] x.t = "number" -> NumToStr(x.v)
      [] x.t = "boolean" -> IF x.v THEN <<"true">> ELSE <<"false">>
      [] x.t \in {"object", "map"} -> <<"[object Object]">>

\* s.startsWith(p)
StartsWith(s, p) == Len(s) >= Len(p) /\ SubSeq(s, 1, Len(p)) = p

\* does `sub` occur in s at position i
OccursAt(s, sub, i) ==
    i + Len(sub) - 1 <= Len(s) /\ SubSeq(s, i, i + Len(sub) - 1) = sub

\* s.includes(sub)
Contains(s, sub) == \E i \in 1..(Len(s) + 1) : OccursAt(s, sub, i)

\* s.replace(pat, rep) with a string pattern: the first occurrence only
Replace(s, pat, rep) ==
    IF Contains(s, pat)
    THEN LET i == CHOOSE k \in 1..(Len(s) + 1) :
                      OccursAt(s, pat, k) /\ \A j \in 1..(k - 1) : ~OccursAt(s, pat, j)
         IN SubSeq(s, 1, i - 1) \o rep \o SubSeq(s, i + Len(pat), Len(s))
    ELSE s

\* parts.join(sep)
RECURSIVE Join(_, _)
Join(parts, sep) ==
    IF parts = <<>> THEN <<>>
    ELSE IF Len(parts) = 1 THEN parts[1]
    ELSE parts[1] \o sep \o Join(Tail(parts), sep)

WhiteSpace == {" ", "\n", "\t"}

\* s.trim()
RECURSIVE Trim(_)
Trim(s) ==
    IF s = <<>> THEN s
    ELSE IF s[1] \in WhiteSpace THEN Trim(Tail(s))
    ELSE IF s[Len(s)] \in WhiteSpace THEN Trim(SubSeq(s, 1, Len(s) - 1))
    ELSE s

\* '#'.repeat(n)
RECURSIVE Repeat(_, _)
Repeat(c, n) == IF n <= 0 THEN <<>> ELSE <<c>> \o Repeat(c, n - 1)

\* the lines of a joined document
RECURSIVE SplitLines(_)
SplitLines(s) ==
    IF \E i \in 1..Len(s) : s[i] = "\n"
    THEN LET i == CHOOSE k \in 1..Len(s) :
                      s[k] = "\n" /\ \A j \in 1..(k - 1) : s[j] # "\n"
         IN <<SubSeq(s, 1, i - 1)>> \o SplitLines(SubSeq(s, i + 1, Len(s)))
    ELSE <<s>>

NL == <<"\n">>

\* the character U+0060, which a TLA+ string literal cannot hold
BackQuote == "U+0060"

\* the character U+2705 of the success heading
CheckMark == "U+2705"

(***************************************************************************)
(* Date objects.  A time value is the record of its UTC fields; the model  *)
(* runs with locale en-US and time zone UTC.                               *)
(***************************************************************************)
NaN == [y |-> 0, mo |-> 0, d |-> 0, h |-> 0, mi |-> 0, s |-> 0]

\* new Date(): the clock reads `clock` seconds past 2025-01-01T00:00:00Z
NewDate(clock) ==
    DateObj(TRUE, [y |-> 2025, mo |-> 1, d |-> 1, h |-> 0, mi |-> 0, s |-> clock])

Pad4(n) == Pad2(n \div 100) \o Pad2(n % 100)

\* Date.prototype.toISOString of a valid date
toISOString(tv) ==
    Pad4(tv.y) \o <<"-">> \o Pad2(tv.mo) \o <<"-">> \o Pad2(tv.d) \o <<"T">>
    \o Pad2(tv.h) \o <<":">> \o Pad2(tv.mi) \o <<":">> \o Pad2(tv.s)
    \o <<".", "0", "0", "0", "Z">>

\* Date.prototype.toLocaleString: it does not throw; an invalid date gives
\* the string "Invalid Date"
toLocaleString(date) ==
    IF ~date.valid
    THEN [threw |-> FALSE, val |-> <<"Invalid Date">>]
    ELSE LET tv == date.tv
             h12 == IF tv.h % 12 = 0 THEN 12 ELSE tv.h % 12
         IN [threw |-> FALSE,
             val |-> NumToStr(tv.mo) \o <<"/">> \o NumToStr(tv.d) \o <<"/">>
                     \o NumToStr(tv.y) \o <<",", " ">> \o NumToStr(h12) \o <<":">>
                     \o Pad2(tv.mi) \o <<":">> \o Pad2(tv.s)
                     \o <<" ", IF tv.h % 24 < 12 THEN "AM" ELSE "PM">>]

\* /^\d{4}-\d{2}-\d{2}T\d{2}:\d{2}:\d{2}/.test(s)
IsoDateTimeShape ==
    <<"d", "d", "d", "d", "-", "d", "d", "-", "d", "d", "T",
      "d", "d", ":", "d", "d", ":", "d", "d">>

MatchesIsoDateTimePrefix(s) ==
    /\ Len(s) >= Len(IsoDateTimeShape)
    /\ \A i \in 1..Len(IsoDateTimeShape) :
          IF IsoDateTimeShape[i] = "d" THEN s[i] \in DigitChars
          ELSE s[i] = IsoDateTimeShape[i]

Num2(s, i) == DigitVal(s[i]) * 10 + DigitVal(s[i + 1])

\* new Date(s) for a string with the date-time prefix: the Date is invalid
\* (time value NaN) when a field is out of range; the constructor never throws
ParseDate(s) ==
    LET y == Num2(s, 1) * 100 + Num2(s, 3)
        mo == Num2(s, 6)
        d == Num2(s, 9)
        h == Num2(s, 12)
        mi == Num2(s, 15)
        sec == Num2(s, 18)
        rest == SubSeq(s, 20, Len(s))
        ok == /\ mo \in 1..12
              /\ d \in 1..31
              /\ h \in 0..23
              /\ mi \in 0..59
              /\ sec \in 0..59
              /\ rest \in {<<>>, <<"Z">>}
    IN IF ok THEN [valid |-> TRUE,
                   tv |-> [y |-> y, mo |-> mo, d |-> d, h |-> h, mi |-> mi, s |-> sec]]
       ELSE [valid |-> FALSE, tv |-> NaN]

(***************************************************************************)
(* utils/formatter.util.ts                                                 *)
(***************************************************************************)
NotAvailable == <<"Not available">>

formatUrl(url, title) ==
    IF ~Truthy(url) THEN NotAvailable
    ELSE LET linkTitle == IF Truthy(title) THEN title ELSE url
         IN <<"[">> \o ToStr(linkTitle) \o <<"](">> \o ToStr(url) \o <<")">>

Min(a, b) == IF a < b THEN a ELSE b
Max(a, b) == IF a > b THEN a ELSE b

formatHeading(text, level) ==
    LET validLevel == Min(Max(level, 1), 6)
        prefix == Repeat("#", validLevel)
    IN prefix \o <<" ">> \o text

formatSeparator == <<"---">>

\* s.replace(/\.\d+Z$/, rep)
ReplaceFractionZ(s, rep) ==
    LET n == Len(s)
        hit == {i \in 1..n : /\ s[i] = "."
                             /\ i + 1 <= n - 1
                             /\ s[n] = "Z"
                             /\ \A j \in (i + 1)..(n - 1) : s[j] \in DigitChars}
    IN IF hit = {} THEN s
       ELSE LET i == CHOOSE k \in hit : \A j \in hit : k <= j
            IN SubSeq(s, 1, i - 1) \o rep

formatDate(dateInput) ==
    IF dateInput.t \in {"undefined", "null"} THEN NotAvailable
    ELSE LET date == dateInput.v
         IN IF ~date.valid THEN <<"Invalid date input">>
            ELSE ReplaceFractionZ(Replace(toISOString(date.tv), <<"T">>, <<" ">>),
                                  <<" ", "UTC">>)

\* formatValue without the boolean case: a boolean reaches String(value)
formatValue_NoBooleanCase(value) ==
    IF value.t \in {"undefined", "null"} THEN NotAvailable
    ELSE IF value.t = "date"
    THEN LET r == toLocaleString(value.v)
         IN IF r.threw THEN <<"Invalid date">> ELSE r.val
    ELSE IF value.t = "object" /\ "url" \in DOMAIN value.v /\ value.v.url.t = "string"
    THEN formatUrl(value.v.url, Prop(value, "title"))
    ELSE IF value.t = "string"
    THEN IF StartsWith(value.v, <<"http://">>) \/ StartsWith(value.v, <<"https://">>)
         THEN formatUrl(value, Undefined)
         ELSE IF MatchesIsoDateTimePrefix(value.v)
         THEN LET r == toLocaleString(ParseDate(value.v))
              IN IF r.threw THEN <<"Invalid date string">> ELSE r.val
         ELSE value.v
    ELSE ToStr(value)

formatValue(value) ==
    IF value.t \in {"undefined", "null"} THEN NotAvailable
    ELSE IF value.t = "date"
    THEN LET r == toLocaleString(value.v)
         IN IF r.threw THEN <<"Invalid date">> ELSE r.val
    ELSE IF value.t = "object" /\ "url" \in DOMAIN value.v /\ value.v.url.t = "string"
    THEN formatUrl(value.v.url, Prop(value, "title"))
    ELSE IF value.t = "string"
    THEN IF StartsWith(value.v, <<"http://">>) \/ StartsWith(value.v, <<"https://">>)
         THEN formatUrl(value, Undefined)
         ELSE IF MatchesIsoDateTimePrefix(value.v)
         THEN LET r == toLocaleString(ParseDate(value.v))
              IN IF r.threw THEN <<"Invalid date string">> ELSE r.val
         ELSE value.v
    ELSE IF value.t = "boolean"
    THEN (IF value.v THEN <<"Yes">> ELSE <<"No">>)
    ELSE ToStr(value)

\* the optional key formatter of formatBulletList, as the callers pass it
ApplyKeyFormatter(keyFormatter, key) ==
    IF keyFormatter = "none" THEN key
    ELSE <<keyFormatter, "(">> \o key \o <<")">>

\* BulletLines without the `continue` for null and undefined
RECURSIVE BulletLines_NoSkip(_, _)
BulletLines_NoSkip(items, keyFormatter) ==
    IF items = <<>> THEN <<>>
    ELSE LET key == items[1][1]
             value == items[1][2]
             rest == BulletLines_NoSkip(Tail(items), keyFormatter)
         IN <<(<<"- **">> \o ApplyKeyFormatter(keyFormatter, key) \o <<"**: ">>
               \o formatValue(value))>> \o rest

\* items: the entries <<key, value>> of the object, in Object.entries order
RECURSIVE BulletLines(_, _)
BulletLines(items, keyFormatter) ==
    IF items = <<>> THEN <<>>
    ELSE LET key == items[1][1]
             value == items[1][2]
             rest == BulletLines(Tail(items), keyFormatter)
         IN IF value.t \in {"undefined", "null"} THEN rest
            ELSE <<(<<"- **">> \o ApplyKeyFormatter(keyFormatter, key) \o <<"**: ">>
                    \o formatValue(value))>> \o rest

formatBulletList(items, keyFormatter) == Join(BulletLines(items, keyFormatter), NL)

\* const { count = 0, ... } = pagination
PaginationCount(pagination) ==
    IF pagination.count.t = "undefined" THEN Num(0) ELSE pagination.count

\* CountPart with the plural chosen by `count > 1`
CountPart_PluralZero(pagination) ==
    LET count == PaginationCount(pagination)
        total == pagination.total
    IN IF total.t # "undefined" /\ total.v >= 0
       THEN <<(<<"*", "Showing ">> \o ToStr(count) \o <<" of ">> \o ToStr(total)
               \o <<" total items.", "*">>)>>
       ELSE IF count.v >= 0
       THEN <<(<<"*", "Showing ">> \o ToStr(count) \o <<" item">>
               \o (IF count.v > 1 THEN <<"s">> ELSE <<>>) \o <<".", "*">>)>>
       ELSE <<>>

\* "Showing count and potentially total"
CountPart(pagination) ==
    LET count == PaginationCount(pagination)
        total == pagination.total
    IN IF total.t # "undefined" /\ total.v >= 0
       THEN <<(<<"*", "Showing ">> \o ToStr(count) \o <<" of ">> \o ToStr(total)
               \o <<" total items.", "*">>)>>
       ELSE IF count.v >= 0
       THEN <<(<<"*", "Showing ">> \o ToStr(count) \o <<" item">>
               \o (IF count.v # 1 THEN <<"s">> ELSE <<>>) \o <<".", "*">>)>>
       ELSE <<>>

\* "More results availability"
MorePart(pagination) ==
    IF Truthy(pagination.hasMore) THEN <<(<<"More results are available.">>)>> ELSE <<>>

\* HintPart without the test of hasMore
HintPart_IgnoresHasMore(pagination) ==
    IF Truthy(pagination.nextCursor)
    THEN <<(<<"*", "Use --start-at", " ">> \o ToStr(pagination.nextCursor)
            \o <<" to view more.", "*">>)>>
    ELSE <<>>

\* HintPart naming the count where the cursor belongs
HintPart_WrongValue(pagination) ==
    IF Truthy(pagination.hasMore) /\ Truthy(pagination.nextCursor)
    THEN <<(<<"*", "Use --start-at", " ">> \o ToStr(PaginationCount(pagination))
            \o <<" to view more.", "*">>)>>
    ELSE <<>>

\* "Prompt for the next action"
HintPart(pagination) ==
    IF Truthy(pagination.hasMore) /\ Truthy(pagination.nextCursor)
    THEN <<(<<"*", "Use --start-at", " ">> \o ToStr(pagination.nextCursor)
            \o <<" to view more.", "*">>)>>
    ELSE <<>>

\* StampPart that also stamps the separator line
StampPart_TwoLines(clock) ==
    <<formatDate(NewDate(clock)),
      (<<"*", "Information retrieved at: ">> \o formatDate(NewDate(clock)) \o <<"*">>)>>

\* "Add standard timestamp"
StampPart(clock) ==
    <<(<<"*", "Information retrieved at: ">> \o formatDate(NewDate(clock)) \o <<"*">>)>>

\* the parts array of formatPagination before the join
PaginationParts(pagination, clock) ==
    <<formatSeparator>> \o CountPart(pagination) \o MorePart(pagination)
    \o HintPart(pagination) \o StampPart(clock)

formatPagination(pagination, clock) == Trim(Join(PaginationParts(pagination, clock), NL))

\* methodLogger.debug(...) of formatPagination
PaginationDebugLine(result) == <<"Formatted pagination footer: ">> \o result

(***************************************************************************)
(* controllers/atlassian.issues.create.formatter.ts                        *)
(***************************************************************************)
OptionalLimit == 10
AllowedValuesLimit == 5

\* fields.slice(0, n)
Slice(seq, n) == SubSeq(seq, 1, Min(n, Len(seq)))

\* the filter with the same predicate for both sections
RECURSIVE FilterRequired_SamePredicate(_, _)
FilterRequired_SamePredicate(entries, wanted) ==
    IF entries = <<>> THEN <<>>
    ELSE LET rest == FilterRequired_SamePredicate(Tail(entries), wanted)
         IN IF Truthy(entries[1][2].required) THEN <<entries[1]>> \o rest
            ELSE rest

\* entries.filter(keep), keeping the order of the entries
RECURSIVE FilterRequired(_, _)
FilterRequired(entries, wanted) ==
    IF entries = <<>> THEN <<>>
    ELSE LET rest == FilterRequired(Tail(entries), wanted)
         IN IF Truthy(entries[1][2].required) = wanted THEN <<entries[1]>> \o rest
            ELSE rest

\* the .map callback over field.allowedValues
AllowedValueName(val) ==
    IF val.t = "object" /\ "name" \in DOMAIN val.v THEN ToStr(val.v.name)
    ELSE ToStr(val)

\* the two lines that formatFieldList's forEach pushes for one field
FieldLines(fieldId, field) ==
    LET displayId == IF Truthy(field.key) THEN field.key
                     ELSE IF Truthy(field.fieldId) THEN field.fieldId
                     ELSE Str(fieldId)
        shown == IF field.allowedValues.t = "array"
                 THEN Slice(field.allowedValues.v, AllowedValuesLimit)
                 ELSE <<>>
        values == [i \in 1..Len(shown) |-> AllowedValueName(shown[i])]
        details ==
            <<(<<"Type: ">> \o ToStr(field.schema.type))>>
            \o (IF Truthy(field.schema.system)
                THEN <<(<<"System: ">> \o ToStr(field.schema.system))>> ELSE <<>>)
            \o (IF Truthy(field.schema.custom)
                THEN <<(<<"Custom: ">> \o ToStr(field.schema.custom))>> ELSE <<>>)
            \o (IF field.allowedValues.t = "array"
                THEN <<(<<"Values: ">> \o Join(values, <<", ">>)
                        \o (IF Len(field.allowedValues.v) > AllowedValuesLimit
                            THEN <<"...">> ELSE <<>>))>>
                ELSE <<>>)
            \o (IF field.defaultValue.t \notin {"undefined", "null"}
                THEN <<(<<"Default: ">> \o ToStr(field.defaultValue))>> ELSE <<>>)
    IN << <<"- **">> \o field.name \o <<"** (", BackQuote>> \o ToStr(displayId) \o <<BackQuote, ")">>,
          <<"  ">> \o Join(details, <<" | ">>) >>

RECURSIVE FieldListLines(_)
FieldListLines(fields) ==
    IF fields = <<>> THEN <<>>
    ELSE FieldLines(fields[1][1], fields[1][2]) \o FieldListLines(Tail(fields))

\* formatFieldList cutting the list one entry early
formatFieldList_SliceNine(fields, limitOptional) ==
    IF Len(fields) = 0 THEN <<"*None*">>
    ELSE LET fieldsToShow == IF limitOptional THEN Slice(fields, OptionalLimit - 1)
                             ELSE fields
             more == IF limitOptional /\ Len(fields) > OptionalLimit
                     THEN <<(<<"*... and ">> \o NumToStr(Len(fields) - OptionalLimit)
                             \o <<" more optional fields*">>)>>
                     ELSE <<>>
         IN Join(FieldListLines(fieldsToShow) \o more, NL)

formatFieldList(fields, limitOptional) ==
    IF Len(fields) = 0 THEN <<"*None*">>
    ELSE LET fieldsToShow == IF limitOptional THEN Slice(fields, OptionalLimit) ELSE fields
             more == IF limitOptional /\ Len(fields) > OptionalLimit
                     THEN <<(<<"*... and ">> \o NumToStr(Len(fields) - OptionalLimit)
                             \o <<" more optional fields*">>)>>
                     ELSE <<>>
         IN Join(FieldListLines(fieldsToShow) \o more, NL)

\* the lines pushed by the single issue type branch of formatCreateMeta
SingleTypeLines(metadata) ==
    LET requiredFields == FilterRequired(metadata.fields.v, TRUE)
        optionalFields == FilterRequired(metadata.fields.v, FALSE)
    IN <<formatHeading(<<"Issue Type: ">> \o ToStr(metadata.name), 2)>>
       \o (IF Truthy(metadata.description)
           THEN << <<"*">> \o ToStr(metadata.description) \o <<"*">>, <<>> >>
           ELSE <<>>)
       \o <<formatHeading(<<"Required Fields">>, 3),
            formatFieldList(requiredFields, FALSE),
            <<>>,
            formatHeading(<<"Optional Fields">>, 3),
            formatFieldList(optionalFields, FALSE)>>

\* the lines pushed by one round of project.issuetypes.forEach
IssueTypeLines(issueType, index) ==
    LET requiredFields == FilterRequired(issueType.fields.v, TRUE)
        optionalFields == FilterRequired(issueType.fields.v, FALSE)
    IN (IF index > 0 THEN << <<>>, formatSeparator, <<>> >> ELSE <<>>)
       \o <<formatHeading(ToStr(issueType.name), 2),
            <<"**ID**: ">> \o ToStr(issueType.id)>>
       \o (IF Truthy(issueType.description)
           THEN <<(<<"**Description**: ">> \o ToStr(issueType.description))>>
           ELSE <<>>)
       \o << <<"**Subtask**: ">> \o (IF Truthy(issueType.subtask) THEN <<"Yes">> ELSE <<"No">>),
             <<>>,
             formatHeading(<<"Required Fields">>, 3),
             formatFieldList(requiredFields, FALSE),
             <<>>,
             formatHeading(<<"Optional Fields">>, 3),
             IF Len(optionalFields) > 0 THEN formatFieldList(optionalFields, TRUE)
             ELSE <<"*No optional fields available.*">> >>

\* index runs from 0 as in forEach
RECURSIVE IssueTypesLines(_, _)
IssueTypesLines(issuetypes, index) ==
    IF issuetypes = <<>> THEN <<>>
    ELSE IssueTypeLines(issuetypes[1], index)
         \o IssueTypesLines(Tail(issuetypes), index + 1)

\* the lines pushed by the legacy branch of formatCreateMeta
LegacyLines(metadata) ==
    LET project == metadata.projects.v[1]
    IN << <<"**">> \o ToStr(project.name) \o <<"** (">> \o ToStr(project.key) \o <<")">>,
          <<>> >>
       \o IssueTypesLines(project.issuetypes, 0)

\* the heading and the project line every document starts with
MetaHeaderLines(projectKey) ==
    << formatHeading(<<"Issue Creation Metadata">>, 1),
       <<"Project: **">> \o projectKey \o <<"**">>,
       <<>> >>

\* MetaBodyLines with the legacy shape tested first
MetaBodyLines_LegacyFirst(metadata) ==
    IF metadata.projects.t = "array" /\ Len(metadata.projects.v) # 0
    THEN LegacyLines(metadata)
    ELSE IF Truthy(metadata.fields) /\ Truthy(metadata.name)
    THEN SingleTypeLines(metadata)
    ELSE << <<"*No issue types available for this project.*">> >>

\* MetaBodyLines without the final else
MetaBodyLines_NoElse(metadata) ==
    IF Truthy(metadata.fields) /\ Truthy(metadata.name)
    THEN SingleTypeLines(metadata)
    ELSE IF metadata.projects.t = "array" /\ Len(metadata.projects.v) # 0
    THEN LegacyLines(metadata)
    ELSE <<>>

\* the if / else if / else over the shape of the response
MetaBodyLines(metadata) ==
    IF Truthy(metadata.fields) /\ Truthy(metadata.name)
    THEN SingleTypeLines(metadata)
    ELSE IF metadata.projects.t = "array" /\ Len(metadata.projects.v) # 0
    THEN LegacyLines(metadata)
    ELSE << <<"*No issue types available for this project.*">> >>

\* the separator and the timestamp every document ends with
MetaFooterLines(clock) ==
    << <<>>,
       formatSeparator,
       <<"*Retrieved at: ">> \o formatDate(NewDate(clock)) \o <<"*">> >>

\* the lines array of formatCreateMeta before the join
CreateMetaLines(metadata, projectKey, clock) ==
    MetaHeaderLines(projectKey) \o MetaBodyLines(metadata) \o MetaFooterLines(clock)

formatCreateMeta(metadata, projectKey, clock) ==
    Join(CreateMetaLines(metadata, projectKey, clock), NL)

BrowsePattern == <<"/", "rest", "/", "api", "/", "3", "/", "issue", "/">>
BrowseReplacement == <<"/", "browse", "/">>

\* IssueInfo with the two link targets exchanged
IssueInfo_TargetsSwapped(response) ==
    << << <<"Issue Key">>, response.key >>,
       << <<"Issue ID">>, response.id >>,
       << <<"Jira URL">>,
          Str(formatUrl(Str(Replace(response.self.v, BrowsePattern, BrowseReplacement)),
                        Str(<<"Open in Jira">>))) >>,
       << <<"Browse URL">>, Str(formatUrl(response.self, Str(<<"View in Browser">>))) >> >>

\* the issueInfo object literal of formatCreateIssueResponse
IssueInfo(response) ==
    << << <<"Issue Key">>, response.key >>,
       << <<"Issue ID">>, response.id >>,
       << <<"Jira URL">>, Str(formatUrl(response.self, Str(<<"Open in Jira">>))) >>,
       << <<"Browse URL">>,
          Str(formatUrl(Str(Replace(response.self.v, BrowsePattern, BrowseReplacement)),
                        Str(<<"View in Browser">>))) >> >>

\* ErrorCollectionLines with the field errors in an else branch
ErrorCollectionLines_ElseIf(errors) ==
    LET messages == Prop(errors, "errorMessages")
        fieldErrors == Prop(errors, "errors")
    IN IF messages.t = "array" /\ Len(messages.v) # 0
       THEN << <<>>, <<"**Warnings:**">> >>
            \o [i \in 1..Len(messages.v) |-> <<"- ">> \o ToStr(messages.v[i])]
       ELSE IF Truthy(fieldErrors) /\ Len(fieldErrors.v) > 0
       THEN << <<>>, <<"**Field Errors:**">> >>
            \o [i \in 1..Len(fieldErrors.v) |->
                  <<"- **">> \o fieldErrors.v[i][1] \o <<"**: ">>
                  \o ToStr(fieldErrors.v[i][2])]
       ELSE <<>>

\* the lines pushed for response.transition.errorCollection
ErrorCollectionLines(errors) ==
    LET messages == Prop(errors, "errorMessages")
        fieldErrors == Prop(errors, "errors")
    IN (IF messages.t = "array" /\ Len(messages.v) # 0
        THEN << <<>>, <<"**Warnings:**">> >>
             \o [i \in 1..Len(messages.v) |-> <<"- ">> \o ToStr(messages.v[i])]
        ELSE <<>>)
       \o (IF Truthy(fieldErrors) /\ Len(fieldErrors.v) > 0
           THEN << <<>>, <<"**Field Errors:**">> >>
                \o [i \in 1..Len(fieldErrors.v) |->
                      <<"- **">> \o fieldErrors.v[i][1] \o <<"**: ">>
                      \o ToStr(fieldErrors.v[i][2])]
           ELSE <<>>)

\* the lines array of formatCreateIssueResponse before the join
CreateIssueResponseLines(response, clock) ==
    << formatHeading(<<CheckMark, " Issue Created Successfully">>, 1),
       <<>>,
       formatBulletList(IssueInfo(response), "none") >>
    \o (IF Truthy(response.transition)
        THEN << <<>>,
                formatHeading(<<"Creation Status">>, 2),
                <<"Status Code: ">> \o ToStr(Prop(response.transition, "status")) >>
             \o (IF Truthy(Prop(response.transition, "errorCollection"))
                 THEN ErrorCollectionLines(Prop(response.transition, "errorCollection"))
                 ELSE <<>>)
        ELSE <<>>)
    \o << <<>>,
          formatSeparator,
          <<"*Issue created at: ">> \o formatDate(NewDate(clock)) \o <<"*">> >>

formatCreateIssueResponse(response, clock) ==
    Join(CreateIssueResponseLines(response, clock), NL)

(***************************************************************************)
(* The inputs the callers pass.                                            *)
(***************************************************************************)
Counts == {Undefined} \cup {Num(n) : n \in (-1)..MaxCount}
Totals == {Undefined} \cup {Num(n) : n \in (-1)..MaxTotal}
Cursors == {Undefined, Str(<<>>), Str(<<"0">>), Str(<<"5", "0">>), Num(0), Num(25),
            Str(<<"Use --start-at">>)}

PaginationInputs ==
    {[count |-> c, hasMore |-> Bool(h), nextCursor |-> k, total |-> t] :
        c \in Counts, h \in BOOLEAN, k \in Cursors, t \in Totals}

\* a field descriptor; the optional attributes vary with the position i
MkField(i, required) ==
    [name |-> <<"Field">> \o NumToStr(i),
     key |-> IF i % 3 = 0 THEN Str(<<"key">> \o NumToStr(i)) ELSE Undefined,
     fieldId |-> IF i % 3 = 1 THEN Str(<<"fid">> \o NumToStr(i)) ELSE Undefined,
     required |-> Bool(required),
     schema |-> [type |-> Str(IF i % 2 = 0 THEN <<"string">> ELSE <<"option">>),
                 system |-> IF i % 2 = 0 THEN Str(<<"summary">>) ELSE Undefined,
                 custom |-> IF i % 4 = 1 THEN Str(<<"select">>) ELSE Undefined],
     allowedValues |->
        IF i % 4 = 1
        THEN Arr(<<Obj([name |-> Str(<<"High">>)]), Str(<<"Low">>), Num(3),
                   Obj([id |-> Num(7)]), Str(<<"e">>), Str(<<"f">>)>>)
        ELSE IF i % 4 = 3 THEN Arr(<<Obj([name |-> Str(<<"Bug">>)]), Str(<<"Task">>)>>)
        ELSE IF i % 4 = 2 THEN Arr(<<>>)
        ELSE Undefined,
     defaultValue |-> IF i % 5 = 0 THEN Str(<<"dflt">>)
                      ELSE IF i % 5 = 1 THEN Null ELSE Undefined]

\* the entries of a field mapping whose i-th field is required iff pattern[i]
MkEntries(pattern) ==
    [i \in 1..Len(pattern) |-> << <<"id">> \o NumToStr(i), MkField(i, pattern[i]) >>]

SmallPatterns == UNION {[1..n -> BOOLEAN] : n \in 0..3}
LongPatterns ==
    {[i \in 1..n |-> i \in req] : n \in 4..MaxFields, req \in {{}, {2, 7}, 1..MaxFields}}
FieldPatterns == SmallPatterns \cup LongPatterns

MkIssueType(k, pattern) ==
    [id |-> Str(NumToStr(10000 + k)),
     name |-> Str(IF k = 1 THEN <<"Bug">> ELSE <<"Task">>),
     description |-> IF k = 1 THEN Str(<<"A problem">>) ELSE Undefined,
     subtask |-> Bool(k = 2),
     fields |-> Map(MkEntries(pattern))]

MkProject(k, issuetypes) ==
    [name |-> Str(<<"Project">> \o NumToStr(k)), key |-> Str(<<"P">> \o NumToStr(k)),
     issuetypes |-> issuetypes]

SecondPatterns == {<<>>, <<FALSE>>, [i \in 1..(MaxFields - 1) |-> FALSE]}

IssueTypeLists ==
    {<<>>}
    \cup {<<MkIssueType(1, p)>> : p \in FieldPatterns}
    \cup {<<MkIssueType(1, p), MkIssueType(2, q)>> : p \in FieldPatterns, q \in SecondPatterns}

SingleTypeMetas ==
    {[fields |-> Map(MkEntries(p)), name |-> Str(<<"Bug">>), description |-> d,
      projects |-> Undefined] :
        p \in FieldPatterns, d \in {Undefined, Str(<<"A problem">>)}}

LegacyMetas ==
    {[fields |-> Undefined, name |-> Undefined, description |-> Undefined,
      projects |-> Arr(<<MkProject(1, its)>>)] : its \in IssueTypeLists}

\* responses that populate both shapes, neither, or half of one
MixedMetas ==
    {[fields |-> f, name |-> n, description |-> Undefined, projects |-> ps] :
        f \in {Undefined, Map(<<>>), Map(MkEntries(<<TRUE, FALSE>>))},
        n \in {Undefined, Str(<<>>), Str(<<"Bug">>)},
        ps \in {Undefined, Arr(<<>>),
                Arr(<<MkProject(1, <<MkIssueType(1, <<FALSE>>)>>)>>),
                Arr(<<MkProject(1, <<>>), MkProject(2, <<MkIssueType(2, <<TRUE>>)>>)>>)}}

CreateMetaInputs ==
    {[metadata |-> m, projectKey |-> <<"ABC">>] :
        m \in SingleTypeMetas \cup LegacyMetas \cup MixedMetas}

Host == <<"https://", "x.atlassian.net">>
IssueNo == <<"1", "0", "0", "0", "1">>

SelfUrls ==
    {Host \o BrowsePattern \o IssueNo,
     Host \o <<"/", "jira">> \o BrowsePattern \o IssueNo,
     Host \o BrowsePattern \o <<"X">> \o BrowsePattern \o IssueNo,
     Host \o <<"/", "rest", "/", "api", "/", "2", "/", "issue", "/">> \o IssueNo,
     Host \o BrowseReplacement \o IssueNo,
     BrowsePattern,
     <<>>}

Messages == {Str(<<"Field X required">>), Str(<<"Not permitted">>)}

MessageLists == UNION {[1..n -> Messages] : n \in 0..MaxMessages}

FieldErrorMaps ==
    {<<>>,
     << << <<"summary">>, Str(<<"is required">>) >> >>,
     << << <<"summary">>, Str(<<"is required">>) >>,
        << <<"priority">>, Str(<<"is invalid">>) >> >>}

ErrorCollections ==
    {Obj([none |-> Undefined])}
    \cup {Obj([errorMessages |-> Arr(ms)]) : ms \in MessageLists}
    \cup {Obj([errors |-> Map(es)]) : es \in FieldErrorMaps}
    \cup {Obj([errorMessages |-> Arr(ms), errors |-> Map(es)]) :
            ms \in MessageLists, es \in FieldErrorMaps}

Transitions ==
    {Undefined}
    \cup {Obj([status |-> Num(st)]) : st \in {201, 400}}
    \cup {Obj([status |-> Num(400), errorCollection |-> ec]) : ec \in ErrorCollections}

CreateIssueInputs ==
    {[key |-> Str(<<"ABC-", "1">>), id |-> Str(IssueNo), self |-> Str(u), transition |-> tr] :
        u \in SelfUrls, tr \in Transitions}

\* an ISO date-time string with the given month, hour and suffix
IsoString(mo, h, suffix) ==
    <<"2", "0", "2", "4", "-">> \o Pad2(mo) \o <<"-", "1", "5", "T">> \o Pad2(h)
    \o <<":", "3", "0", ":", "0", "7">> \o suffix

DateStrings ==
    {IsoString(mo, h, sfx) : mo \in {1, 12, 13}, h \in {0, 12, 23, 99}, sfx \in {<<>>, <<"Z">>}}
    \cup {<<"2", "0", "2", "4", "-", "0", "1", "-", "1", "5">>}

ValueInputs ==
    {Undefined, Null, Bool(TRUE), Bool(FALSE), Num(0), Num(42), Str(<<>>), Str(<<"plain">>),
     Str(<<"https://", "x.atlassian.net">>), Str(<<"http://", "x">>),
     Obj([url |-> Str(<<"https://", "x">>), title |-> Str(<<"X">>)]),
     Obj([url |-> Str(<<"https://", "x">>)]),
     Obj([url |-> Num(5)]),
     Obj([name |-> Str(<<"n">>)]),
     DateObj(TRUE, [y |-> 2024, mo |-> 2, d |-> 29, h |-> 13, mi |-> 5, s |-> 9]),
     DateObj(FALSE, NaN)}
    \cup {Str(d) : d \in DateStrings}

Keys == <<"alpha", "beta", "gamma", "delta", "epsilon">>

\* the values of the longer mappings
ListValues == {Undefined, Null, Bool(TRUE), Num(42), Str(<<"plain">>),
               Str(IsoString(13, 0, <<>>))}

ItemLists ==
    {<< << <<Keys[1]>>, x >> >> : x \in ValueInputs}
    \cup UNION {{[i \in 1..n |-> << <<Keys[i]>>, f[i] >>] : f \in [1..n -> ListValues]} :
                  n \in 0..MaxItems}

BulletListInputs ==
    {[items |-> its, keyFormatter |-> kf] : its \in ItemLists, kf \in {"none", "toUpper"}}

(***************************************************************************)
(* The callers: a response object is built, formatted (perhaps more than   *)
(* once, at later readings of the clock) and discarded.                    *)
(***************************************************************************)
NoInput == Undefined

\* the call fn(input) made when the clock reads `clock`
Apply(f, in, clock) ==
    CASE f = "formatPagination" -> formatPagination(in, clock)
      [] f = "formatCreateMeta" -> formatCreateMeta(in.metadata, in.projectKey, clock)
      [] f = "formatCreateIssueResponse" -> formatCreateIssueResponse(in, clock)
      [] f = "formatBulletList" -> formatBulletList(in.items, in.keyFormatter)
      [] f = "formatValue" -> formatValue(in)

\* what the call appends to the debug log
Logged(f, result) ==
    IF f = "formatPagination" THEN <<PaginationDebugLine(result)>> ELSE <<>>

Init ==
    /\ fn = "none"
    /\ input = NoInput
    /\ calls = <<>>
    /\ now = 0
    /\ log = <<>>

\* what one call leaves with the caller: the object, the text and the log line
Returned(f, in) ==
    /\ fn' = f
    /\ input' = in
    /\ calls' = <<[at |-> now, out |-> Apply(f, in, now)]>>
    /\ log' = Logged(f, Apply(f, in, now))
    /\ UNCHANGED now

CallFormatPagination ==
    /\ fn = "none"
    /\ \E p \in PaginationInputs : Returned("formatPagination", p)

CallFormatCreateMeta ==
    /\ fn = "none"
    /\ \E m \in CreateMetaInputs : Returned("formatCreateMeta", m)

CallFormatCreateIssueResponse ==
    /\ fn = "none"
    /\ \E r \in CreateIssueInputs : Returned("formatCreateIssueResponse", r)

CallFormatBulletList ==
    /\ fn = "none"
    /\ \E b \in BulletListInputs : Returned("formatBulletList", b)

\* formatValue is private to formatter.util.ts: this is the call on one value
CallFormatValue ==
    /\ fn = "none"
    /\ \E x \in ValueInputs : Returned("formatValue", x)

\* the same function is called again on the same object
CallAgain ==
    /\ fn # "none"
    /\ Len(calls) < MaxCalls
    /\ calls' = Append(calls, [at |-> now, out |-> Apply(fn, input, now)])
    /\ log' = log \o Logged(fn, Apply(fn, input, now))
    /\ UNCHANGED <<fn, input, now>>

\* the response object is dropped
Discard ==
    /\ fn # "none"
    /\ fn' = "none"
    /\ input' = NoInput
    /\ calls' = <<>>
    /\ log' = <<>>
    /\ UNCHANGED now

Tick ==
    /\ now < MaxClock
    /\ now' = now + 1
    /\ UNCHANGED <<fn, input, calls, log>>

Next ==
    \/ CallFormatPagination
    \/ CallFormatCreateMeta
    \/ CallFormatCreateIssueResponse
    \/ CallFormatBulletList
    \/ CallFormatValue
    \/ CallAgain
    \/ Discard
    \/ Tick

Spec == Init /\ [][Next]_vars

(***************************************************************************)
(* Properties.                                                             *)
(***************************************************************************)
\* the lines of the string the i-th call returned
OutLines(i) == SplitLines(calls[i].out)

Called(f) == fn = f /\ calls # <<>>

\* YYYY-MM-DD HH:MM:SS UTC
TimestampShape ==
    <<"d", "d", "d", "d", "-", "d", "d", "-", "d", "d", " ",
      "d", "d", ":", "d", "d", ":", "d", "d", " ", "UTC">>

IsTimestamp(s) ==
    /\ Len(s) = Len(TimestampShape)
    /\ \A i \in 1..Len(s) :
          IF TimestampShape[i] = "d" THEN s[i] \in DigitChars ELSE s[i] = TimestampShape[i]

\* is `line` the text `label` followed by a timestamp and the closing asterisk
IsStampLine(line, label) ==
    /\ StartsWith(line, label)
    /\ Len(line) > Len(label)
    /\ line[Len(line)] = "*"
    /\ IsTimestamp(SubSeq(line, Len(label) + 1, Len(line) - 1))

HintLine(cursor) == <<"*", "Use --start-at", " ">> \o cursor \o <<" to view more.", "*">>

IsCountLine(line) == StartsWith(line, <<"*", "Showing ">>)

\* C1: a footer rendered for hasMore = false contains neither "Use --start-at"
\* nor "More results are available.", whatever count, total and nextCursor are.
C1_NoHintWithoutMore ==
    (Called("formatPagination") /\ ~Truthy(input.hasMore)) =>
        \A i \in DOMAIN calls :
            /\ ~Contains(calls[i].out, <<"Use --start-at">>)
            /\ ~Contains(calls[i].out, <<"More results are available.">>)

C1_Witness ==
    /\ Called("formatPagination")
    /\ ~Truthy(input.hasMore)
    /\ input.nextCursor = Str(<<"5", "0">>)

\* C2 as stated: with hasMore = true every defined nextCursor, the empty string
\* and a zero offset included, is named in a next-offset hint line.
C2_AsStated ==
    (Called("formatPagination") /\ Truthy(input.hasMore)
       /\ input.nextCursor.t # "undefined") =>
        \A i \in DOMAIN calls :
            \E k \in DOMAIN OutLines(i) : OutLines(i)[k] = HintLine(ToStr(input.nextCursor))

\* C2 (amended): with hasMore = true, a nextCursor that is a non-empty string or
\* a non-zero number is named in exactly one next-offset hint line; an
\* undefined, empty or numeric-zero nextCursor gives no hint line.
C2_HintForTruthyCursor ==
    (Called("formatPagination") /\ Truthy(input.hasMore)) =>
        \A i \in DOMAIN calls :
            LET hints == {k \in DOMAIN OutLines(i) :
                             Contains(OutLines(i)[k], <<"Use --start-at">>)}
            IN IF Truthy(input.nextCursor)
               THEN /\ Cardinality(hints) = 1
                    /\ \A k \in hints : OutLines(i)[k] = HintLine(ToStr(input.nextCursor))
               ELSE hints = {}

C2_Witness ==
    /\ Called("formatPagination")
    /\ Truthy(input.hasMore)
    /\ input.nextCursor = Str(<<"0">>)
    /\ Contains(calls[1].out, HintLine(<<"0">>))

\* the count line the claim prescribes
C3_TotalLine(count, total) ==
    <<"*", "Showing ">> \o NumToStr(count) \o <<" of ">> \o NumToStr(total)
    \o <<" total items.", "*">>

C3_ItemsLine(count) ==
    <<"*", "Showing ">> \o NumToStr(count)
    \o (IF count = 1 THEN <<" item">> ELSE <<" item", "s">>) \o <<".", "*">>

C3_Count == IF input.count.t = "undefined" THEN 0 ELSE input.count.v

C3_HasTotal == input.total.t # "undefined" /\ input.total.v >= 0

C3_Framed(lines) ==
    /\ lines[1] = <<"---">>
    /\ IsStampLine(lines[Len(lines)], <<"*", "Information retrieved at: ">>)

\* C3 as stated: every footer has exactly one count line.
C3_AsStated ==
    Called("formatPagination") =>
        \A i \in DOMAIN calls :
            /\ Cardinality({k \in DOMAIN OutLines(i) : IsCountLine(OutLines(i)[k])}) = 1
            /\ C3_Framed(OutLines(i))

\* C3 (amended): the footer starts with "---" and ends with the timestamp line;
\* its second line is "Showing {count} of {total} total items." when total is
\* defined and >= 0, else "Showing {count} item(s)." (singular iff count = 1)
\* when count >= 0, an absent count being 0; when total is absent or negative
\* and count is negative there is no count line at all.
C3_CountLine ==
    Called("formatPagination") =>
        \A i \in DOMAIN calls :
            LET lines == OutLines(i)
                shown == {k \in DOMAIN lines : IsCountLine(lines[k])}
            IN /\ C3_Framed(lines)
               /\ IF C3_HasTotal
                  THEN shown = {2} /\ lines[2] = C3_TotalLine(C3_Count, input.total.v)
                  ELSE IF C3_Count >= 0
                  THEN shown = {2} /\ lines[2] = C3_ItemsLine(C3_Count)
                  ELSE shown = {}

C3_Witness ==
    /\ Called("formatPagination")
    /\ input.count = Num(1)
    /\ input.total = Num(-1)
    /\ OutLines(1)[2] = <<"*", "Showing ", "1", " item", ".", "*">>

RequiredHeading == <<"#", "#", "#", " ", "Required Fields">>
OptionalHeading == <<"#", "#", "#", " ", "Optional Fields">>

\* the index of the k-th line equal to `heading`, 0 when there is none
NthLine(lines, heading, k) ==
    LET at == {j \in DOMAIN lines : lines[j] = heading}
        nth == {j \in at : Cardinality({m \in at : m <= j}) = k}
    IN IF nth = {} THEN 0 ELSE CHOOSE j \in nth : TRUE

\* the lines below line h up to the next blank line
SectionAfter(lines, h) ==
    LET blanks == {j \in (h + 1)..Len(lines) : lines[j] = <<>>}
        end == IF blanks = {} THEN Len(lines) + 1
               ELSE CHOOSE j \in blanks : \A m \in blanks : j <= m
    IN SubSeq(lines, h + 1, end - 1)

IsBullet(line) == StartsWith(line, <<"- **">>)

\* the display name of a field bullet: what stands between "- **" and "** ("
BulletName(line) ==
    LET close == {j \in DOMAIN line : line[j] = "** ("}
    IN IF close = {} THEN <<"?">>
       ELSE SubSeq(line, 2, (CHOOSE j \in close : \A m \in close : j <= m) - 1)

\* the display names of the bullets of a section, in order
RECURSIVE BulletNames(_)
BulletNames(section) ==
    IF section = <<>> THEN <<>>
    ELSE (IF IsBullet(section[1]) THEN <<BulletName(section[1])>> ELSE <<>>)
         \o BulletNames(Tail(section))

\* the names of the fields of `entries` whose required flag is `wanted`,
\* in mapping order
RECURSIVE NamesWhere(_, _)
NamesWhere(entries, wanted) ==
    IF entries = <<>> THEN <<>>
    ELSE (IF entries[1][2].required.v = wanted THEN <<entries[1][2].name>> ELSE <<>>)
         \o NamesWhere(Tail(entries), wanted)

IsMoreNote(line) == StartsWith(line, <<"*... and ">>)

SingleTypeShape(m) == Truthy(m.fields) /\ Truthy(m.name)

LegacyShape(m) ==
    ~SingleTypeShape(m) /\ m.projects.t = "array" /\ m.projects.v # <<>>

\* a section that lists all of `names`, two lines a field, and nothing else;
\* "*None*" when there are no names
ListsAll(section, names) ==
    IF names = <<>> THEN section = << <<"*None*">> >>
    ELSE /\ BulletNames(section) = names
         /\ Len(section) = 2 * Len(names)
         /\ \A j \in DOMAIN section : ~IsMoreNote(section[j])

\* C4: in the legacy path the Optional Fields section of every issue type
\* lists the first 10 of its n optional fields followed by the note
\* "*... and {n-10} more optional fields*" when n > 10, all n fields and no
\* note when 1 <= n <= 10, and "*No optional fields available.*" when n = 0;
\* the Required Fields section lists every required field.
C4_OptionalTruncated ==
    (Called("formatCreateMeta") /\ LegacyShape(input.metadata)) =>
        \A i \in DOMAIN calls :
            LET lines == OutLines(i)
                its == input.metadata.projects.v[1].issuetypes
            IN \A k \in DOMAIN its :
                  LET opt == NamesWhere(its[k].fields.v, FALSE)
                      req == NamesWhere(its[k].fields.v, TRUE)
                      n == Len(opt)
                      optSection == SectionAfter(lines, NthLine(lines, OptionalHeading, k))
                      reqSection == SectionAfter(lines, NthLine(lines, RequiredHeading, k))
                  IN /\ NthLine(lines, OptionalHeading, k) # 0
                     /\ NthLine(lines, RequiredHeading, k) # 0
                     /\ ListsAll(reqSection, req)
                     /\ IF n = 0
                        THEN optSection = << <<"*No optional fields available.*">> >>
                        ELSE IF n <= 10
                        THEN ListsAll(optSection, opt)
                        ELSE /\ BulletNames(optSection) = SubSeq(opt, 1, 10)
                             /\ Len(optSection) = 21
                             /\ optSection[21] = <<"*... and ">> \o NumToStr(n - 10)
                                                 \o <<" more optional fields*">>

C4_Witness ==
    /\ Called("formatCreateMeta")
    /\ LegacyShape(input.metadata)
    /\ input.metadata.projects.v[1].issuetypes # <<>>
    /\ Len(NamesWhere(input.metadata.projects.v[1].issuetypes[1].fields.v, FALSE)) = 12
    /\ \E j \in DOMAIN OutLines(1) :
          OutLines(1)[j] = <<"*... and ", "2", " more optional fields*">>

\* C6 as stated: for an empty projects array the document is the italic line,
\* the separator and the timestamp line, and nothing else.
C6_AsStated ==
    (Called("formatCreateMeta") /\ ~SingleTypeShape(input.metadata)
       /\ input.metadata.projects = Arr(<<>>)) =>
        \A i \in DOMAIN calls :
            LET lines == SelectSeq(OutLines(i), LAMBDA l : l # <<>>)
            IN /\ Len(lines) = 3
               /\ lines[1] = <<"*No issue types available for this project.*">>
               /\ lines[2] = <<"---">>
               /\ IsStampLine(lines[3], <<"*Retrieved at: ">>)

\* C6 (amended): for an empty projects array and no single-type shape the
\* document is the heading "# Issue Creation Metadata", the line
\* "Project: **{projectKey}**", a blank line, the italic line
\* "*No issue types available for this project.*", a blank line, the
\* separator and the timestamp line, and nothing else.
C6_NoIssueTypes ==
    (Called("formatCreateMeta") /\ ~SingleTypeShape(input.metadata)
       /\ input.metadata.projects = Arr(<<>>)) =>
        \A i \in DOMAIN calls :
            LET lines == OutLines(i)
            IN /\ Len(lines) = 7
               /\ lines[1] = <<"#", " ", "Issue Creation Metadata">>
               /\ lines[2] = <<"Project: **">> \o input.projectKey \o <<"**">>
               /\ lines[3] = <<>>
               /\ lines[4] = <<"*No issue types available for this project.*">>
               /\ lines[5] = <<>>
               /\ lines[6] = <<"---">>
               /\ IsStampLine(lines[7], <<"*Retrieved at: ">>)

C6_Witness ==
    /\ Called("formatCreateMeta")
    /\ input.metadata.fields = Undefined
    /\ input.metadata.projects = Arr(<<>>)
    /\ OutLines(1)[4] = <<"*No issue types available for this project.*">>

\* C8: in the single-type path every field is listed in exactly one section,
\* under "Required Fields" iff its required flag is set and under "Optional
\* Fields" otherwise, in mapping order and without truncation; a section
\* without fields is "*None*"; the document carries "## Issue Type: {name}".
C8_SingleTypePartition ==
    (Called("formatCreateMeta") /\ SingleTypeShape(input.metadata)) =>
        \A i \in DOMAIN calls :
            LET lines == OutLines(i)
                entries == input.metadata.fields.v
                reqSection == SectionAfter(lines, NthLine(lines, RequiredHeading, 1))
                optSection == SectionAfter(lines, NthLine(lines, OptionalHeading, 1))
            IN /\ \E j \in DOMAIN lines :
                     lines[j] = <<"#", "#", " ", "Issue Type: ">> \o input.metadata.name.v
               /\ NthLine(lines, RequiredHeading, 1) # 0
               /\ NthLine(lines, OptionalHeading, 1) # 0
               /\ NthLine(lines, RequiredHeading, 2) = 0
               /\ NthLine(lines, OptionalHeading, 2) = 0
               /\ ListsAll(reqSection, NamesWhere(entries, TRUE))
               /\ ListsAll(optSection, NamesWhere(entries, FALSE))

C8_Witness ==
    /\ Called("formatCreateMeta")
    /\ SingleTypeShape(input.metadata)
    /\ Len(NamesWhere(input.metadata.fields.v, TRUE)) = 2
    /\ Len(NamesWhere(input.metadata.fields.v, FALSE)) = 11
    /\ Len(BulletNames(OutLines(1))) = 13

\* the rest of the first line that starts with `label`, <<"?">> when there is none
AfterLabel(lines, label) ==
    LET at == {j \in DOMAIN lines : StartsWith(lines[j], label)}
    IN IF at = {} THEN <<"?">>
       ELSE LET j == CHOOSE m \in at : \A q \in at : m <= q
            IN SubSeq(lines[j], Len(label) + 1, Len(lines[j]))

Link(title, target) == <<"[", title, "](">> \o target \o <<")">>

ApiPath == <<"/", "rest", "/", "api", "/", "3", "/", "issue", "/">>

\* `self` with the first "/rest/api/3/issue/" turned into "/browse/", and
\* `self` itself when it holds no such substring
C5_BrowseTarget(self) ==
    LET at == {j \in 1..Len(self) : OccursAt(self, ApiPath, j)}
    IN IF at = {} THEN self
       ELSE LET j == CHOOSE m \in at : \A q \in at : m <= q
            IN SubSeq(self, 1, j - 1) \o <<"/", "browse", "/">>
               \o SubSeq(self, j + Len(ApiPath), Len(self))

\* C5: the Jira URL bullet links to the unmodified self and the Browse URL
\* bullet links to self with "/rest/api/3/issue/" replaced by "/browse/"
\* (the first occurrence), which is self when the substring is absent; an
\* empty self has no link target: both bullets read "Not available".
C5_BrowseUrl ==
    Called("formatCreateIssueResponse") =>
        \A i \in DOMAIN calls :
            LET lines == OutLines(i)
                self == input.self.v
                jira == AfterLabel(lines, <<"- **", "Jira URL", "**: ">>)
                browse == AfterLabel(lines, <<"- **", "Browse URL", "**: ">>)
            IN IF self = <<>>
               THEN jira = <<"Not available">> /\ browse = <<"Not available">>
               ELSE /\ jira = Link("Open in Jira", self)
                    /\ browse = Link("View in Browser", C5_BrowseTarget(self))
                    /\ ~Contains(self, ApiPath) =>
                          browse = Link("View in Browser", self)

C5_Witness ==
    /\ Called("formatCreateIssueResponse")
    /\ input.self.v = <<"https://", "x.atlassian.net">> \o ApiPath \o <<"1", "0", "0", "0", "1">>
    /\ AfterLabel(OutLines(1), <<"- **", "Browse URL", "**: ">>)
         = Link("View in Browser",
                <<"https://", "x.atlassian.net", "/", "browse", "/", "1", "0", "0", "0", "1">>)

\* the error messages and the field errors of the response, empty when the
\* transition, the error collection or the part is absent
C7_Messages ==
    LET tr == input.transition
        ec == IF tr.t = "object" THEN Prop(tr, "errorCollection") ELSE Undefined
        ms == IF ec.t = "object" THEN Prop(ec, "errorMessages") ELSE Undefined
    IN IF ms.t = "array" THEN ms.v ELSE <<>>

C7_FieldErrors ==
    LET tr == input.transition
        ec == IF tr.t = "object" THEN Prop(tr, "errorCollection") ELSE Undefined
        es == IF ec.t = "object" THEN Prop(ec, "errors") ELSE Undefined
    IN IF es.t = "map" THEN es.v ELSE <<>>

\* C7: "**Warnings:**" is in the document exactly when there are error
\* messages, followed by one bullet "- {msg}" per message in order;
\* "**Field Errors:**" is in it exactly when there are field errors, followed
\* by one bullet "- **{field}**: {error}" per field; the one does not depend
\* on the other; the status code line is there exactly when a transition is.
C7_ErrorSections ==
    Called("formatCreateIssueResponse") =>
        \A i \in DOMAIN calls :
            LET lines == OutLines(i)
                w == NthLine(lines, <<"**Warnings:**">>, 1)
                f == NthLine(lines, <<"**Field Errors:**">>, 1)
                ms == C7_Messages
                es == C7_FieldErrors
            IN /\ (w # 0) <=> (ms # <<>>)
               /\ (f # 0) <=> (es # <<>>)
               /\ NthLine(lines, <<"**Warnings:**">>, 2) = 0
               /\ NthLine(lines, <<"**Field Errors:**">>, 2) = 0
               /\ w # 0 => SectionAfter(lines, w)
                             = [j \in 1..Len(ms) |-> <<"- ">> \o ms[j].v]
               /\ f # 0 => SectionAfter(lines, f)
                             = [j \in 1..Len(es) |->
                                  <<"- **">> \o es[j][1] \o <<"**: ">> \o es[j][2].v]
               /\ (w # 0 /\ f # 0) => w < f
               /\ (\E j \in DOMAIN lines : StartsWith(lines[j], <<"Status Code: ">>))
                     <=> input.transition.t # "undefined"

C7_Witness ==
    /\ Called("formatCreateIssueResponse")
    /\ Len(C7_Messages) = 2
    /\ Len(C7_FieldErrors) = 2
    /\ C7_Messages[1] # C7_Messages[2]
    /\ NthLine(OutLines(1), <<"**Warnings:**">>, 1) # 0
    /\ NthLine(OutLines(1), <<"**Field Errors:**">>, 1) # 0

\* a document without its last line
AllButLast(lines) == SubSeq(lines, 1, Len(lines) - 1)

C10_Rendered == AfterLabel(OutLines(1), <<"- **">> \o input.items[1][1] \o <<"**: ">>)

\* C10 as stated: a string with the date-time prefix that does not parse is
\* rendered "Invalid date string", and a Date object that cannot be
\* formatted is rendered "Invalid date".
C10_AsStated ==
    (Called("formatBulletList") /\ Len(input.items) = 1) =>
        LET value == input.items[1][2]
        IN /\ (value.t = "string" /\ MatchesIsoDateTimePrefix(value.v)
                 /\ ~ParseDate(value.v).valid)
                  => C10_Rendered = <<"Invalid date string">>
           /\ (value.t = "date" /\ ~value.v.valid) => C10_Rendered = <<"Invalid date">>

\* C11: the Value Formatter returns "Not available" for null and for
\* undefined, and for a boolean "Yes" when it is true and "No" when it is
\* false; no other case of the formatter (string, URL object, String(value))
\* gets to render such a value.
C11_NullAndBoolean ==
    Called("formatValue") =>
        \A i \in DOMAIN calls :
            /\ input.t \in {"undefined", "null"} => calls[i].out = <<"Not available">>
            /\ input.t = "boolean" =>
                  /\ (calls[i].out = <<"Yes">>) <=> (input.v = TRUE)
                  /\ (calls[i].out = <<"No">>) <=> (input.v = FALSE)
                  /\ calls[i].out \in {<<"Yes">>, <<"No">>}

C11_Witness ==
    /\ Called("formatValue")
    /\ input = Bool(FALSE)
    /\ calls[1].out = <<"No">>

\* the entries of the mapping whose value is neither null nor undefined
C12_Kept == SelectSeq(input.items, LAMBDA e : e[2].t \notin {"undefined", "null"})

\* the key as the optional key formatter leaves it
C12_Key(key) ==
    IF input.keyFormatter = "none" THEN key
    ELSE <<input.keyFormatter, "(">> \o key \o <<")">>

\* C12: formatBulletList returns one line "- **{key}**: {value}" per entry
\* whose value is neither null nor undefined, in mapping order, the key
\* formatter applied to the key and the Value Formatter to the value; a null
\* or undefined entry gives no line (and no "Not available"), so there are as
\* many lines as non-null entries, and the empty string when there are none.
C12_BulletLines ==
    Called("formatBulletList") =>
        \A i \in DOMAIN calls :
            IF C12_Kept = <<>> THEN calls[i].out = <<>>
            ELSE LET lines == OutLines(i)
                 IN /\ Len(lines) = Len(C12_Kept)
                    /\ \A k \in DOMAIN lines :
                          /\ lines[k] = <<"- **">> \o C12_Key(C12_Kept[k][1]) \o <<"**: ">>
                                        \o formatValue(C12_Kept[k][2])
                          /\ ~Contains(lines[k], <<"Not available">>)

C12_Witness ==
    /\ Called("formatBulletList")
    /\ Len(input.items) = 2
    /\ input.items[1][2] = Null
    /\ input.items[2][2] = Bool(TRUE)
    /\ input.keyFormatter = "toUpper"
    /\ calls[1].out = <<"- **", "toUpper", "(", "beta", ")", "**: ", "Yes">>

\* both `fields` and a non-empty `name` are present
C13_HasSingleType(m) == m.fields.t # "undefined" /\ m.name.t = "string" /\ m.name.v # <<>>

\* `projects` is a non-empty array
C13_HasProjects(m) == m.projects.t = "array" /\ Len(m.projects.v) > 0

C13_ProjectLine(project) ==
    <<"**">> \o project.name.v \o <<"** (">> \o project.key.v \o <<")">>

IsLevel2Heading(line) == StartsWith(line, <<"#", "#", " ">>)

NoTypesLine == <<"*No issue types available for this project.*">>

\* the indices of the lines that satisfy Test, in order
LinesWhere(lines, Test(_)) ==
    LET at == {j \in DOMAIN lines : Test(lines[j])}
    IN [k \in 1..Cardinality(at) |->
          CHOOSE j \in at : Cardinality({q \in at : q <= j}) = k]

\* C13: formatCreateMeta renders exactly one branch.  With fields and a
\* non-empty name it renders the single-type branch and nothing of projects;
\* otherwise, with a non-empty projects array, the first project only: its
\* line, then one level-2 section per issue type of that project, in order,
\* with a separator before every issue type but the first; otherwise the
\* "no issue types" line.  A missing or empty name is never single-type.
C13_OneBranch ==
    Called("formatCreateMeta") =>
        \A i \in DOMAIN calls :
            LET m == input.metadata
                lines == OutLines(i)
                single == \E j \in DOMAIN lines :
                             StartsWith(lines[j], <<"#", "#", " ", "Issue Type: ">>)
                legacy == /\ m.projects.t = "array"
                          /\ \E j \in DOMAIN lines :
                                \E p \in DOMAIN m.projects.v :
                                   lines[j] = C13_ProjectLine(m.projects.v[p])
                none == \E j \in DOMAIN lines : lines[j] = NoTypesLine
                heads == LinesWhere(lines, IsLevel2Heading)
                seps == LinesWhere(lines, LAMBDA l : l = <<"---">>)
            IN IF C13_HasSingleType(m)
               THEN /\ single /\ ~legacy /\ ~none
                    /\ Len(heads) = 1
                    /\ lines[heads[1]] = <<"#", "#", " ", "Issue Type: ">> \o m.name.v
                    /\ Len(seps) = 1
               ELSE IF C13_HasProjects(m)
               THEN LET its == m.projects.v[1].issuetypes
                    IN /\ legacy /\ ~single /\ ~none
                       /\ lines[4] = C13_ProjectLine(m.projects.v[1])
                       /\ \A p \in 2..Len(m.projects.v) :
                             \A j \in DOMAIN lines :
                                lines[j] # C13_ProjectLine(m.projects.v[p])
                       /\ Len(heads) = Len(its)
                       /\ \A k \in DOMAIN its :
                             /\ lines[heads[k]] = <<"#", "#", " ">> \o its[k].name.v
                             /\ lines[heads[k] - 1] = <<>>
                             /\ IF k = 1 THEN heads[k] = 6
                                ELSE /\ lines[heads[k] - 2] = <<"---">>
                                     /\ lines[heads[k] - 3] = <<>>
                       /\ Len(seps) = (IF its = <<>> THEN 0 ELSE Len(its) - 1) + 1
               ELSE /\ none /\ ~single /\ ~legacy
                    /\ Len(heads) = 0

\* both shapes populated: the single-type branch wins
C13_Witness ==
    /\ Called("formatCreateMeta")
    /\ C13_HasSingleType(input.metadata)
    /\ C13_HasProjects(input.metadata)
    /\ Len(input.metadata.projects.v) = 2
    /\ \E j \in DOMAIN OutLines(1) :
          OutLines(1)[j] = <<"#", "#", " ", "Issue Type: ", "Bug">>

====
